---- MODULE Spec2Model ----
(***************************************************************************)
(* Evaluation engine of nekro_github_analyzer: the LRU/TTL result cache    *)
(* (src/utils.py), the evaluator and its collector (src/evaluator.py).     *)
(*                                                                         *)
(* Time is a discrete clock `now` (datetime.now(timezone.utc)); one unit   *)
(* is one second.  The await points of the asyncio coroutines are the only *)
(* places where other work interleaves, so the code between two awaits is  *)
(* one action.                                                             *)
(***************************************************************************)
EXTENDS Integers, Sequences, FiniteSets, TLC

\* ---------------------------------------------------------------- bounds
MaxTime == 3
MaxSize == 2

Keys == {"k1", "k2", "k3"}
Vals == {[v |-> 1], [v |-> 2]}
TTLs == {1, 2}

\* Python's None.
None == [none |-> TRUE]

VARIABLES
  now,          \* the wall clock
  max_size,     \* LRUCache.max_size
  ttl_seconds,  \* LRUCache.ttl_seconds
  cache,        \* LRUCache._cache: the OrderedDict, oldest first
  act,          \* name of the operation that made the last step
  last,         \* arguments and results of the last cache operation
  lru,          \* stored keys in the order of their last set / successful get
  pc,           \* per request: where evaluate_project stands
  url,          \* per request: the url argument
  res,          \* per request: the locals of _collect_data holding facet results
  calls,        \* per request: client calls and later stages, in order
  out,          \* per request: what evaluate_project returned or raised
  last_evaluation_data, \* per request: evaluator._last_evaluation_data
  wrote,        \* per request: its own steps that changed the cache
  actor,        \* the request that made the last evaluator step
  card          \* per request: what generate_evaluation_card scored last

cachevars == <<now, max_size, ttl_seconds, cache, act, last, lru>>
reqvars == <<pc, url, res, calls, out, last_evaluation_data, wrote, actor, card>>
vars == <<now, max_size, ttl_seconds, cache, act, last, lru,
          pc, url, res, calls, out, last_evaluation_data, wrote, actor, card>>

\* ------------------------------------------------------------ sequences
RECURSIVE SeqToSet(_)
SeqToSet(s) == IF s = <<>> THEN {} ELSE {Head(s)} \cup SeqToSet(Tail(s))

KeysOf(c) == [i \in 1..Len(c) |-> c[i].key]

HasKey(c, k) == \E i \in 1..Len(c) : c[i].key = k

EntryOf(c, k) == c[CHOOSE i \in 1..Len(c) : c[i].key = k]

\* del self._cache[key]
DelKey(c, k) == SelectSeq(c, LAMBDA e : e.key # k)

\* ------------------------------------------------------------ CacheEntry
CacheEntry(k, value, ttl, t) ==
  [key |-> k, value |-> value, timestamp |-> t, ttl |-> ttl]

\* expiry at age = ttl already (>= for >)
is_expired_AtTTL(e, t) == (t - e.timestamp) >= e.ttl

is_expired(e, t) == (t - e.timestamp) > e.ttl

get_age_seconds(e, t) == t - e.timestamp

\* -------------------------------------------------------------- LRUCache
\* get without the move_to_end of a hit
LRUCache_get_NoMove(c, k, t) ==
  IF ~HasKey(c, k) THEN [cache |-> c, ret |-> None]
  ELSE LET entry == EntryOf(c, k) IN
       IF (t - entry.timestamp) > entry.ttl
       THEN [cache |-> DelKey(c, k), ret |-> None]
       ELSE [cache |-> c, ret |-> entry.value]

\* get that reports an expired entry absent but leaves it stored
LRUCache_get_NoDel(c, k, t) ==
  IF ~HasKey(c, k) THEN [cache |-> c, ret |-> None]
  ELSE LET entry == EntryOf(c, k) IN
       IF (t - entry.timestamp) > entry.ttl
       THEN [cache |-> c, ret |-> None]
       ELSE [cache |-> Append(DelKey(c, k), entry), ret |-> entry.value]

\* get whose hit starts the age of the entry anew
LRUCache_get_Refresh(c, k, t) ==
  IF ~HasKey(c, k) THEN [cache |-> c, ret |-> None]
  ELSE LET entry == EntryOf(c, k) IN
       IF is_expired(entry, t)
       THEN [cache |-> DelKey(c, k), ret |-> None]
       ELSE [cache |-> Append(DelKey(c, k), [entry EXCEPT !.timestamp = t]),
             ret |-> entry.value]

\* get: result is the new OrderedDict and the returned value.
LRUCache_get(c, k, t) ==
  IF ~HasKey(c, k) THEN [cache |-> c, ret |-> None]
  ELSE LET entry == EntryOf(c, k) IN
       IF is_expired(entry, t)
       THEN [cache |-> DelKey(c, k), ret |-> None]
       ELSE [cache |-> Append(DelKey(c, k), entry), ret |-> entry.value]

\* eviction one entry too late (>= max_size + 1 entries kept)
RECURSIVE EvictLoop_OffByOne(_, _, _)
EvictLoop_OffByOne(c, ms, evicted) ==
  IF Len(c) > ms + 1
  THEN EvictLoop_OffByOne(Tail(c), ms, Append(evicted, Head(c).key))
  ELSE [cache |-> c, evicted |-> evicted]

\* popitem() with its default last=True: the newest entry goes
RECURSIVE EvictLoop_PopLast(_, _, _)
EvictLoop_PopLast(c, ms, evicted) ==
  IF Len(c) > ms
  THEN EvictLoop_PopLast(SubSeq(c, 1, Len(c) - 1), ms, Append(evicted, c[Len(c)].key))
  ELSE [cache |-> c, evicted |-> evicted]

\* the while loop of set: popitem(last=False) while over capacity
RECURSIVE EvictLoop(_, _, _)
EvictLoop(c, ms, evicted) ==
  IF Len(c) > ms
  THEN EvictLoop(Tail(c), ms, Append(evicted, Head(c).key))
  ELSE [cache |-> c, evicted |-> evicted]

\* set without the removal of the entry already stored under the key
LRUCache_set_NoReplace(c, k, value, ms, ttl, t) ==
  EvictLoop(Append(c, CacheEntry(k, value, ttl, t)), ms, <<>>)

\* set that overwrites a stored key where it stands (no del before the
\* assignment)
LRUCache_set_InPlace(c, k, value, ms, ttl, t) ==
  IF HasKey(c, k)
  THEN [cache |-> [i \in 1..Len(c) |->
                     IF c[i].key = k THEN CacheEntry(k, value, ttl, t) ELSE c[i]],
        evicted |-> <<>>]
  ELSE EvictLoop(Append(c, CacheEntry(k, value, ttl, t)), ms, <<>>)

\* set that drops the expired entries before it looks at the capacity
LRUCache_set_PurgeExpired(c, k, value, ms, ttl, t) ==
  LET c1 == IF HasKey(c, k) THEN DelKey(c, k) ELSE c
      c2 == SelectSeq(c1, LAMBDA e : ~is_expired(e, t))
  IN  EvictLoop(Append(c2, CacheEntry(k, value, ttl, t)), ms, <<>>)

LRUCache_set(c, k, value, ms, ttl, t) ==
  LET c1 == IF HasKey(c, k) THEN DelKey(c, k) ELSE c
      c2 == Append(c1, CacheEntry(k, value, ttl, t))
  IN  EvictLoop(c2, ms, <<>>)

\* clear that spares the most recently used entry
LRUCache_clear_KeepNewest(c) == IF c = <<>> THEN <<>> ELSE <<c[Len(c)]>>

LRUCache_clear(c) == <<>>

\* cleanup that stops after the first expired key
LRUCache_cleanup_expired_FirstOnly(c, t) ==
  LET expired_keys == SelectSeq(KeysOf(c), LAMBDA k : is_expired(EntryOf(c, k), t))
      first == IF expired_keys = <<>> THEN <<>> ELSE <<Head(expired_keys)>>
  IN  [cache |-> SelectSeq(c, LAMBDA e : e.key \notin SeqToSet(first)),
       ret   |-> Len(first)]

LRUCache_cleanup_expired(c, t) ==
  LET expired_keys == SelectSeq(KeysOf(c), LAMBDA k : is_expired(EntryOf(c, k), t))
  IN  [cache |-> SelectSeq(c, LAMBDA e : e.key \notin SeqToSet(expired_keys)),
       ret   |-> Len(expired_keys)]

get_stats(c, ms, ttl) == [size |-> Len(c), max_size |-> ms, ttl_seconds |-> ttl]

\* -------------------------------------------------------------- requests
Reqs == {"r1", "r2"}
Urls == {"a/x", "b/y"}

\* the calls with the license asked for before the README
Facets_LicenseFirst ==
  <<"repo_info", "license", "readme", "community_profile",
    "language_stats", "repo_structure", "issues", "pull_requests",
    "releases", "branches">>

\* the client calls of _collect_data, in program order
Facets == <<"repo_info", "readme", "license", "community_profile",
            "language_stats", "repo_structure", "issues", "pull_requests",
            "releases", "branches">>

FacetSet == SeqToSet(Facets)
OptionalFacets == FacetSet \ {"repo_info"}
FacetIndex(f) == CHOOSE i \in 1..Len(Facets) : Facets[i] = f

\* What a client call hands back: a value, None, or a raised exception.
Ok(v) == [tag |-> "ok", val |-> v]
NoneVal == [tag |-> "none", warned |-> FALSE]
\* the None a local is given after its call raised and a warning was logged
CaughtNone == [tag |-> "none", warned |-> TRUE]
Exc(e) == [tag |-> "exc", error |-> e]
Pending == [tag |-> "pending"]

\* Optional[str]
Some(x) == [some |-> x]

InitReqs ==
  /\ pc = [p \in Reqs |-> "idle"]
  /\ url = [p \in Reqs |-> ""]
  /\ res = [p \in Reqs |-> [f \in FacetSet |-> Pending]]
  /\ calls = [p \in Reqs |-> <<>>]
  /\ out = [p \in Reqs |-> [kind |-> "none"]]
  /\ last_evaluation_data = [p \in Reqs |-> None]
  /\ wrote = [p \in Reqs |-> {}]
  /\ actor = ""
  /\ card = [p \in Reqs |-> None]

\* ------------------------------------------------- _collect_data: reduction
\* the running total of item.comments over a list
RECURSIVE SumComments(_)
SumComments(s) == IF s = <<>> THEN 0 ELSE Head(s).comments + SumComments(Tail(s))

Max(a, b) == IF a >= b THEN a ELSE b

\* a quotient kept exact
Ratio(n, d) == [num |-> n, den |-> d]
Zero == Ratio(0, 1)

isinstance_Exception(x) == x.tag = "exc"
isinstance_list(x) == x.tag = "ok"

\* str.lower() on the directory names that occur
Lower(name) ==
  CASE name = "Tests" -> "tests"
    [] name = "SRC" -> "src"
    [] name = "Docs" -> "docs"
    [] OTHER -> name

standard_dirs == {"src", "lib", "tests", "test", "docs", "doc"}

\* item.path.split("/")[-1].lower() of the tree-typed items that match
found_dirs(items) ==
  {Lower(items[i].path[Len(items[i].path)]) :
     i \in {j \in 1..Len(items) : items[j].type = "tree"}} \cap standard_dirs

\* the fallback count without its test of repo_info.language
fallback_language_count_Always(repo_info) == 1

\* line 282: 1 if repo_info.language else 0
fallback_language_count(repo_info) == IF repo_info.language # None THEN 1 ELSE 0

\* Attribute access on a local that holds None raises AttributeError.
Raises(x) == x.tag = "none"

\* timedelta.days: the whole days of a difference of two times in seconds
timedelta_days(delta) == delta \div 86400

\* lines 259-450: the record built from the ten locals at time t.  The
\* repository's dates are times in seconds, release dates whole days before
\* the evaluation.
ProcessData(r, t) ==
  LET repo_info == r["repo_info"].val
      readme_info == r["readme"]
      license_info == r["license"]
      community_profile == r["community_profile"]
      language_stats == r["language_stats"]
      repo_structure == r["repo_structure"]
      issues == r["issues"]
      pull_requests == r["pull_requests"]
      releases == r["releases"]
      branches == r["branches"]
      closed_issues_count ==
        IF isinstance_list(issues)
        THEN Len(SelectSeq(issues.val, LAMBDA i : i.state = "closed")) ELSE 0
      issue_comments_total ==
        IF isinstance_list(issues)
        THEN SumComments(issues.val) ELSE 0
      total_prs == IF isinstance_list(pull_requests) THEN Len(pull_requests.val) ELSE 0
      merged_prs ==
        IF isinstance_list(pull_requests)
        THEN Len(SelectSeq(pull_requests.val, LAMBDA q : q.merged)) ELSE 0
      pr_comments_total ==
        IF isinstance_list(pull_requests)
        THEN SumComments(pull_requests.val) ELSE 0
      open_issues_count == repo_info.issues
      age_in_days ==
        IF repo_info.created_at # None
        THEN timedelta_days(t - repo_info.created_at.some) ELSE 0
      days_since_update ==
        IF repo_info.updated_at # None
        THEN timedelta_days(t - repo_info.updated_at.some) ELSE 0
  IN
  IF \/ (~isinstance_Exception(license_info) /\ Raises(license_info))
     \/ (~isinstance_Exception(community_profile) /\ Raises(community_profile))
     \/ (~isinstance_Exception(language_stats) /\ Raises(language_stats))
  THEN [raised |-> "AttributeError"]
  ELSE
  [raised |-> "",
   full_name |-> repo_info.full_name,
   url |-> repo_info.url,
   has_readme |-> readme_info.tag # "none",
   readme_length |-> IF readme_info.tag = "ok" THEN readme_info.val.content_len ELSE 0,
   has_license |-> license_info.tag # "none" /\ ~isinstance_Exception(license_info),
   license_name |-> IF ~isinstance_Exception(license_info)
                    THEN Some(license_info.val.name) ELSE None,
   has_contributing |-> IF ~isinstance_Exception(community_profile)
                        THEN community_profile.val.has_contributing ELSE FALSE,
   has_code_of_conduct |-> IF ~isinstance_Exception(community_profile)
                           THEN community_profile.val.has_code_of_conduct ELSE FALSE,
   primary_language |-> IF ~isinstance_Exception(language_stats)
                        THEN language_stats.val.primary_language
                        ELSE repo_info.language,
   language_count |-> IF ~isinstance_Exception(language_stats)
                      THEN language_stats.val.language_count
                      ELSE fallback_language_count(repo_info),
   has_standard_dirs |-> IF ~isinstance_Exception(repo_structure)
                         THEN Cardinality(found_dirs(repo_structure.val)) >= 2
                         ELSE FALSE,
   release_count |-> IF isinstance_list(releases) THEN Len(releases.val) ELSE 0,
   releases_last_year |->
     IF isinstance_list(releases)
     THEN Len(SelectSeq(releases.val,
              LAMBDA x : x.published_at # None /\ x.published_at.some < 365))
     ELSE 0,
   open_issues |-> open_issues_count,
   closed_issues |-> closed_issues_count,
   issue_comments_total |-> issue_comments_total,
   issue_comments_avg |->
     IF open_issues_count + closed_issues_count > 0
     THEN Ratio(issue_comments_total, Max(1, open_issues_count + closed_issues_count))
     ELSE Zero,
   total_prs |-> total_prs,
   merged_prs |-> merged_prs,
   pr_comments_total |-> pr_comments_total,
   pr_comment_density |->
     IF merged_prs > 0
     THEN Ratio(issue_comments_total + pr_comments_total, Max(1, merged_prs))
     ELSE Zero,
   protected_branches |->
     IF isinstance_list(branches)
     THEN Len(SelectSeq(branches.val, LAMBDA b : b.is_protected)) ELSE 0,
   stars |-> repo_info.stars,
   forks |-> repo_info.forks,
   contributors |-> repo_info.contributors,
   age_in_days |-> age_in_days,
   updated_at |-> IF repo_info.updated_at # None THEN repo_info.updated_at.some ELSE t,
   maintained_days |-> Max(0, age_in_days - days_since_update)]

\* _generate_key_metrics
generate_key_metrics(data) ==
  [stars |-> data.stars, forks |-> data.forks, contributors |-> data.contributors,
   open_issues |-> data.open_issues, release_count |-> data.release_count,
   primary_language |-> data.primary_language,
   project_age_years |-> data.age_in_days \div 365]

\* ------------------------------------------------------------- scorer
\* Scores are exact quotients num/den of points; a DimensionScore keeps its
\* score in tenths of a point and its percentage in tenths of a percent.

\* min with its arguments' order of size reversed
Min_Larger(a, b) == IF a >= b THEN a ELSE b

Min(a, b) == IF a <= b THEN a ELSE b

\* The places where a DimensionScore is rounded.  Python rounds the binary
\* value of the float: where the exact value lies halfway between two
\* neighbours, the float may lie on either side, so each place has its own
\* direction for that case.
RoundSites ==
  {<<d, f>> : d \in {"code_quality", "activity", "community_health"},
              f \in {"score", "percentage"}}

\* The code-quality points are whole halves, and neither a tenth nor a third
\* of them is ever halfway, so only the other two dimensions have a choice.
TieModes ==
  {ties \in [RoundSites -> BOOLEAN] :
     /\ ~ties[<<"code_quality", "score">>]
     /\ ~ties[<<"code_quality", "percentage">>]}

\* round(p/q) for p >= 0, q > 0: to the nearest integer, a tie as `up` says
round_float(p, q, up) ==
  LET f == p \div q
      r == p % q
  IN  IF 2 * r < q THEN f
      ELSE IF 2 * r > q THEN f + 1
      ELSE IF up THEN f + 1 ELSE f

\* round(x, 1), in tenths
round_1(x, up) == round_float(10 * x.num, x.den, up)

\* DimensionScore(score=round(final_score, 1), max_score=max,
\*                percentage=round((final_score / max) * 100, 1))
DimensionScore(final_score, max_score, up_score, up_percentage) ==
  [score |-> round_1(final_score, up_score),
   max_score |-> max_score,
   percentage |-> round_float(100 * final_score.num,
                              (max_score \div 10) * final_score.den,
                              up_percentage),
   confidence |-> "high"]

\* math.log10(n) in units of 0.0001, for the arguments that occur
log10_e4(n) ==
  CASE n = 1 -> 0
    [] n = 4 -> 6021
    [] n = 6 -> 7782
    [] n = 13 -> 11139
    [] n = 51 -> 17076
    [] n = 601 -> 27789
    [] n = 2201 -> 33426
    [] n = 10000 -> 40000
    [] n = 100000 -> 50000

\* the difference taken the other way round
days_since_update_Reversed(data, t) == timedelta_days(data.updated_at - t)

\* (datetime.now(timezone.utc) - data.updated_at).days, read at time t
days_since_update(data, t) == timedelta_days(t - data.updated_at)

\* branch protection that gives its whole credit for any protected branch
branch_protection_points_Full(protected_branches) ==
  IF protected_branches > 0 THEN 25 ELSE 0

\* min(2.5, protected_branches * 0.5), in tenths
branch_protection_points(protected_branches) ==
  IF protected_branches > 0 THEN Min(25, protected_branches * 5) ELSE 0

\* calculate_code_quality: what each check adds to the score, in tenths,
\* computed at time t
code_quality_parts(data, t) ==
  [readme |-> IF data.has_readme /\ data.readme_length >= 500 THEN 50
              ELSE IF data.has_readme THEN 30 ELSE 0,
   license |-> IF data.has_license THEN 20 ELSE 0,
   contributing |-> IF data.has_contributing THEN 15 ELSE 0,
   code_of_conduct |-> IF data.has_code_of_conduct THEN 15 ELSE 0,
   release_management |->
     IF data.releases_last_year >= 6 THEN 50
     ELSE IF data.releases_last_year >= 2 THEN 30
     ELSE IF data.releases_last_year >= 1 THEN 10 ELSE 0,
   last_update |->
     IF days_since_update(data, t) <= 30 THEN 25
     ELSE IF days_since_update(data, t) <= 90 THEN 15
     ELSE IF days_since_update(data, t) <= 180 THEN 5 ELSE 0,
   branch_protection |-> branch_protection_points(data.protected_branches),
   primary_language |-> IF data.primary_language # None THEN 30 ELSE 0,
   language_diversity |->
     IF 1 <= data.language_count /\ data.language_count <= 5 THEN 40
     ELSE IF 5 < data.language_count /\ data.language_count <= 10 THEN 20
     ELSE 0,
   code_structure |->
     IF data.has_standard_dirs THEN 30
     ELSE IF data.primary_language # None /\ data.language_count > 0 THEN 15
     ELSE 0]

\* calculate_code_quality: the score before min(30, score), in tenths
code_quality_points(data, t) ==
  LET parts == code_quality_parts(data, t) IN
    parts.readme + parts.license + parts.contributing + parts.code_of_conduct
  + parts.release_management + parts.last_update + parts.branch_protection
  + parts.primary_language + parts.language_diversity
  + parts.code_structure

calculate_code_quality(data, t, ties) ==
  DimensionScore(Ratio(Min(300, code_quality_points(data, t)), 10), 30,
                 ties[<<"code_quality", "score">>],
                 ties[<<"code_quality", "percentage">>])

\* open-issue health that gives nothing to a repository without stars
open_issues_health_StarsOnly(data) ==
  IF data.stars > 0
  THEN (IF 100 * data.open_issues < Max(1, data.stars) THEN 44
        ELSE IF 20 * data.open_issues < Max(1, data.stars) THEN 30
        ELSE IF 100 * data.open_issues < 15 * Max(1, data.stars) THEN 15
        ELSE 0)
  ELSE 0

\* calculate_activity, lines 235-256: issue_ratio = open_issues / max(1, stars)
\* against 0.01, 0.05 and 0.15, in tenths
open_issues_health(data) ==
  IF data.stars > 0
  THEN (IF 100 * data.open_issues < Max(1, data.stars) THEN 44
        ELSE IF 20 * data.open_issues < Max(1, data.stars) THEN 30
        ELSE IF 100 * data.open_issues < 15 * Max(1, data.stars) THEN 15
        ELSE 0)
  ELSE (IF data.open_issues = 0 THEN 44 ELSE 0)

\* calculate_activity: the parts that are whole tenths, computed at time t
activity_points(data, t) ==
    (IF data.releases_last_year >= 6 THEN 120
     ELSE IF data.releases_last_year >= 4 THEN 100
     ELSE IF data.releases_last_year >= 2 THEN 70
     ELSE IF data.releases_last_year >= 1 THEN 40 ELSE 0)
  + (IF days_since_update(data, t) <= 30 THEN 150
     ELSE IF days_since_update(data, t) <= 90 THEN 120
     ELSE IF days_since_update(data, t) <= 180 THEN 80
     ELSE IF days_since_update(data, t) <= 365 THEN 40 ELSE 0)
  + open_issues_health(data)

\* calculate_activity: close_rate * 4.3 and merge_rate * 4.3 are added as
\* quotients over 10 * issues * prs
calculate_activity(data, t, ties) ==
  LET issues == data.open_issues + data.closed_issues
      i == Max(1, issues)
      q == Max(1, data.total_prs)
      score == activity_points(data, t) * i * q
               + (IF issues > 0 THEN 43 * data.closed_issues * q ELSE 0)
               + (IF data.total_prs > 0 THEN 43 * data.merged_prs * i ELSE 0)
  IN  DimensionScore(Ratio(Min(400 * i * q, score), 10 * i * q), 40,
                     ties[<<"activity", "score">>],
                     ties[<<"activity", "percentage">>])

\* calculate_community_health: points in units of 0.00001
community_health_points(data) ==
    (IF data.stars > 0 THEN Min(600000, log10_e4(data.stars + 1) * 15) ELSE 0)
  + (IF data.forks > 0 THEN Min(400000, log10_e4(data.forks + 1) * 12) ELSE 0)
  + (IF data.contributors > 0
     THEN Min(500000, log10_e4(data.contributors + 1) * 18) ELSE 0)
  + (IF data.open_issues + data.closed_issues > 0
     THEN (IF data.issue_comments_avg.num >= 3 * data.issue_comments_avg.den
           THEN 500000
           ELSE IF data.issue_comments_avg.num >= data.issue_comments_avg.den
           THEN 300000
           ELSE IF data.issue_comments_avg.num > 0 THEN 100000 ELSE 0)
     ELSE 0)
  + (IF data.total_prs > 0
     THEN (IF /\ 10 * data.merged_prs > 8 * data.total_prs
              /\ data.pr_comment_density.num >= data.pr_comment_density.den
           THEN 500000
           ELSE IF /\ 10 * data.merged_prs > 6 * data.total_prs
                   /\ 2 * data.pr_comment_density.num >= data.pr_comment_density.den
           THEN 300000
           ELSE IF \/ 10 * data.merged_prs > 4 * data.total_prs
                   \/ data.pr_comment_density.num > 0
           THEN 100000 ELSE 0)
     ELSE 0)
  + (IF data.age_in_days >= 365 * 3 THEN 200000
     ELSE IF data.age_in_days >= 365 THEN 100000 ELSE 0)
  + (IF data.forks > 0
     THEN (IF 3 * data.forks <= data.stars /\ data.stars <= 15 * data.forks
           THEN 200000
           ELSE IF 2 * data.forks <= data.stars /\ data.stars <= 20 * data.forks
           THEN 100000 ELSE 0)
     ELSE 0)
  + (IF data.maintained_days >= 2 * 365 THEN 100000 ELSE 0)

calculate_community_health(data, ties) ==
  DimensionScore(Ratio(Min(3000000, community_health_points(data)), 100000), 30,
                 ties[<<"community_health", "score">>],
                 ties[<<"community_health", "percentage">>])

calculate_scores(data, t, ties) ==
  [code_quality |-> calculate_code_quality(data, t, ties),
   activity |-> calculate_activity(data, t, ties),
   community_health |-> calculate_community_health(data, ties)]

\* the sum without the community dimension
total_score_TwoDimensions(scores) == scores.code_quality.score + scores.activity.score

\* line 62, in tenths
total_score(scores) ==
  scores.code_quality.score + scores.activity.score + scores.community_health.score

\* get_rating with the top band starting at 90
get_rating_TopAt90(total) ==
  IF total >= 900 THEN "A+"
  ELSE IF total >= 750 THEN "A"
  ELSE IF total >= 650 THEN "B+"
  ELSE IF total >= 550 THEN "B"
  ELSE IF total >= 450 THEN "C"
  ELSE "D"

\* get_rating; the total is in tenths
get_rating(total) ==
  IF total >= 850 THEN "A+"
  ELSE IF total >= 750 THEN "A"
  ELSE IF total >= 650 THEN "B+"
  ELSE IF total >= 550 THEN "B"
  ELSE IF total >= 450 THEN "C"
  ELSE "D"

\* generate_recommendation; the texts by their headline
generate_recommendation(total) ==
  IF total >= 850 THEN "strongly recommended"
  ELSE IF total >= 750 THEN "recommended"
  ELSE IF total >= 650 THEN "usable"
  ELSE IF total >= 550 THEN "use with care"
  ELSE IF total >= 450 THEN "needs evaluation"
  ELSE "not recommended"

\* the ProjectEvaluation built at lines 77-92; the total is a sum of tenths,
\* which round(total_score, 1) never finds halfway
Assemble(data, t, ties) ==
  LET scores == calculate_scores(data, t, ties)
      total == total_score(scores)
  IN
  [repo_full_name |-> data.full_name,
   repo_url |-> data.url,
   evaluated_at |-> t,
   total_score |-> round_1(Ratio(total, 10), FALSE),
   confidence |-> "high",
   rating |-> get_rating(total),
   code_quality |-> scores.code_quality,
   activity |-> scores.activity,
   community_health |-> scores.community_health,
   key_metrics |-> generate_key_metrics(data),
   recommendation |-> generate_recommendation(total)]

\* ------------------------------------------------------- cache operations
\* What a caller observes of one cache operation: its arguments, its result,
\* the keys it logged as evicted and how many of their entries had not
\* expired, how many entries it removed, where the key stood in the
\* OrderedDict before it (0: absent), and the operation before.
NoOp == [op |-> "init", key |-> "", arg |-> None, ret |-> None,
         evicted |-> <<>>, live |-> 0, count |-> 0, pos |-> 0,
         prevop |-> "init", prevkey |-> ""]

PosOf(c, k) == IF HasKey(c, k) THEN CHOOSE i \in 1..Len(c) : c[i].key = k ELSE 0

Observe(op, k, arg, ret, evicted, c, c2) ==
  [op |-> op, key |-> k, arg |-> arg, ret |-> ret, evicted |-> evicted,
   live |-> Len(SelectSeq(c, LAMBDA e : /\ e.key \in SeqToSet(evicted)
                                        /\ ~is_expired(e, now))),
   count |-> IF Len(c) > Len(c2) THEN Len(c) - Len(c2) ELSE 0,
   pos |-> PosOf(c, k), prevop |-> last.op, prevkey |-> last.key]

\* Recency bookkeeping, kept apart from the OrderedDict: a use of k moves it
\* to the end, and keys no longer stored are dropped.
KeySet(c) == {c[i].key : i \in 1..Len(c)}
Touch(l, k) == Append(SelectSeq(l, LAMBDA x : x # k), k)
Purge(l, c) == SelectSeq(l, LAMBDA x : x \in KeySet(c))

Tick ==
  /\ now < MaxTime
  /\ now' = now + 1
  /\ act' = "tick"
  /\ UNCHANGED <<max_size, ttl_seconds, cache, last, lru>>
  /\ UNCHANGED reqvars

Get(k) ==
  LET r == LRUCache_get(cache, k, now) IN
  /\ cache' = r.cache
  /\ act' = "get"
  /\ last' = Observe("get", k, None, r.ret, <<>>, cache, r.cache)
  /\ lru' = Purge(IF r.ret # None THEN Touch(lru, k) ELSE lru, r.cache)
  /\ UNCHANGED <<now, max_size, ttl_seconds>>
  /\ UNCHANGED reqvars

Set(k, value) ==
  LET r == LRUCache_set(cache, k, value, max_size, ttl_seconds, now) IN
  /\ cache' = r.cache
  /\ act' = "set"
  /\ last' = Observe("set", k, value, None, r.evicted, cache, r.cache)
  /\ lru' = Purge(Touch(lru, k), r.cache)
  /\ UNCHANGED <<now, max_size, ttl_seconds>>
  /\ UNCHANGED reqvars

Clear ==
  LET c2 == LRUCache_clear(cache) IN
  /\ cache' = c2
  /\ act' = "clear"
  /\ last' = Observe("clear", "", None, None, <<>>, cache, c2)
  /\ lru' = Purge(lru, c2)
  /\ UNCHANGED <<now, max_size, ttl_seconds>>
  /\ UNCHANGED reqvars

CleanupExpired ==
  LET r == LRUCache_cleanup_expired(cache, now) IN
  /\ cache' = r.cache
  /\ act' = "cleanup_expired"
  /\ last' = [Observe("cleanup_expired", "", None, None, <<>>, cache, r.cache)
                EXCEPT !.count = r.ret]
  /\ lru' = Purge(lru, r.cache)
  /\ UNCHANGED <<now, max_size, ttl_seconds>>
  /\ UNCHANGED reqvars

\* LRUCache.__init__(max_size, ttl_seconds)
InitCache ==
  /\ InitReqs
  /\ now = 0
  /\ max_size \in 1..MaxSize
  /\ ttl_seconds \in TTLs
  /\ cache = <<>>
  /\ act = "init"
  /\ last = NoOp
  /\ lru = <<>>

NextCache ==
  \/ Tick
  \/ \E k \in Keys : Get(k)
  \/ \E k \in Keys, value \in Vals : Set(k, value)
  \/ Clear
  \/ CleanupExpired

SpecCache == InitCache /\ [][NextCache]_vars

\* ------------------------------------------------------ client call results
\* get_repo_info: a GitHubRepoInfo, ValueError (unparsable url, 404) or
\* RuntimeError (any other status, network, malformed response).
RepoInfo(u, language, stars, issues) ==
  [owner |-> u, repo |-> u, full_name |-> u, url |-> u,
   language |-> language, stars |-> stars, forks |-> stars, contributors |-> stars,
   issues |-> issues, created_at |-> Some(0 - 800 * 86400),
   updated_at |-> Some(0 - 5 * 86400)]

SampleReadme == [content_len |-> 600]
SampleLicense == [name |-> "MIT"]
SampleCommunity == [has_contributing |-> TRUE, has_code_of_conduct |-> TRUE]
SampleLanguages == [primary_language |-> Some("Go"), language_count |-> 3]
SampleTree == <<[type |-> "tree", path |-> <<"SRC">>],
                [type |-> "tree", path |-> <<"pkg", "Tests">>],
                [type |-> "blob", path |-> <<"docs">>]>>
SampleTreeOneDir == <<[type |-> "tree", path |-> <<"src">>],
                      [type |-> "blob", path |-> <<"tests">>]>>
SampleIssues == <<[state |-> "closed", comments |-> 2],
                  [state |-> "open", comments |-> 1]>>
SamplePulls == <<[merged |-> TRUE, comments |-> 1],
                 [merged |-> FALSE, comments |-> 0]>>
SamplePullsUnmerged == <<[merged |-> FALSE, comments |-> 3]>>
SampleReleases == <<[published_at |-> Some(10)],
                    [published_at |-> Some(400)],
                    [published_at |-> None]>>
SampleBranches == <<[is_protected |-> TRUE], [is_protected |-> FALSE]>>

MetaErrors == {Exc("ValueError"), Exc("RuntimeError")}

\* every outcome the client code can produce, per call
FullResults(f, u) ==
  CASE f = "repo_info" ->
         {Ok(RepoInfo(u, Some("Go"), 5, 2)), Ok(RepoInfo(u, None, 0, 0))} \cup MetaErrors
    [] f = "readme" -> {Ok(SampleReadme), NoneVal, Exc("RuntimeError")}
    [] f = "license" -> {Ok(SampleLicense), NoneVal, Exc("RuntimeError")}
    [] f = "community_profile" -> {Ok(SampleCommunity), Exc("RuntimeError")}
    [] f = "language_stats" -> {Ok(SampleLanguages), Exc("RuntimeError")}
    [] f = "repo_structure" ->
         {Ok(SampleTree), Ok(SampleTreeOneDir), Exc("RuntimeError")}
    [] f = "issues" -> {Ok(SampleIssues), Exc("RuntimeError")}
    [] f = "pull_requests" ->
         {Ok(SamplePulls), Ok(SamplePullsUnmerged), Exc("RuntimeError")}
    [] f = "releases" -> {Ok(SampleReleases), Exc("RuntimeError")}
    [] f = "branches" -> {Ok(SampleBranches), Exc("RuntimeError")}
    [] OTHER -> {}

\* the outcomes that decide the control flow of evaluate_project
BasicResults(f, u) ==
  CASE f = "repo_info" -> {Ok(RepoInfo(u, Some("Go"), 5, 2))} \cup MetaErrors
    [] f = "license" -> {Ok(SampleLicense), NoneVal}
    [] f = "readme" -> {Ok(SampleReadme)}
    [] f = "community_profile" -> {Ok(SampleCommunity)}
    [] f = "language_stats" -> {Ok(SampleLanguages)}
    [] f = "repo_structure" -> {Ok(SampleTree)}
    [] f = "issues" -> {Ok(SampleIssues)}
    [] f = "pull_requests" -> {Ok(SamplePulls)}
    [] f = "releases" -> {Ok(SampleReleases)}
    [] f = "branches" -> {Ok(SampleBranches)}
    [] OTHER -> {}

\* ------------------------------------------------ evaluate_project: pieces
\* line 47
IsHit_Never(cached_result) == FALSE

IsHit(cached_result) == cached_result # None

\* _safe_call that lets the exception through
safe_call_Reraise(r) == [raised |-> r.tag = "exc", value |-> r]

\* _safe_call: the result, or the exception as a value
safe_call(r) == [raised |-> FALSE, value |-> r]

\* lines 195-199: the README call inside try/except
readme_try(r) == [raised |-> FALSE, value |-> IF r.tag = "exc" THEN CaughtNone ELSE r]

\* get_repo_info wrapped like the optional calls
mandatory_call_Swallow(r) == [raised |-> FALSE, value |-> r]

\* line 189: awaited bare, an exception leaves _collect_data
mandatory_call(r) == [raised |-> r.tag = "exc", value |-> r]

AwaitResult(f, r) ==
  CASE f = "repo_info" -> mandatory_call(r)
    [] f = "readme" -> readme_try(r)
    [] OTHER -> safe_call(r)

\* the cache is written whatever the reduction did
StoresResult_Always(data) == TRUE

\* lines 53-101: the cache is written only after data, scores and the
\* evaluation object exist
StoresResult(data) == data.raised = ""

\* lines 257-104 after the last await: reduce, score, assemble
EvalTail(r, t, ties) ==
  LET data == ProcessData(r, t) IN
  IF data.raised # ""
  THEN [ok |-> FALSE, error |-> data.raised, data |-> data,
        value |-> [result |-> None, age_seconds |-> 0],
        stages |-> <<"process">>]
  ELSE [ok |-> TRUE, error |-> "", data |-> data,
        value |-> [result |-> Assemble(data, t, ties), age_seconds |-> 0],
        stages |-> <<"process", "calculate_scores", "assemble">>]

Finished == {"idle", "done", "failed", "cancelled"}

\* a store of its own for every evaluator: the key carries the instance
cache_key_PerInstance(p, u) == <<p, u>>

\* lines 46 and 98: the key under which the evaluator of request p looks up
\* and stores the result for url in the class attribute _cache
cache_key(p, u) == u

\* ------------------------------------------------ evaluate_project: steps
\* Entry up to the first await: cache lookup, and on a miss the call of
\* get_repo_info.
Start(p, u) ==
  LET g == LRUCache_get(cache, cache_key(p, u), now) IN
  /\ pc[p] \in Finished
  /\ cache' = g.cache
  /\ lru' = Purge(IF g.ret # None THEN Touch(lru, cache_key(p, u)) ELSE lru,
                  g.cache)
  /\ act' = "evaluate_project"
  /\ actor' = p
  /\ url' = [url EXCEPT ![p] = u]
  /\ res' = [res EXCEPT ![p] = [f \in FacetSet |-> Pending]]
  /\ last_evaluation_data' = [last_evaluation_data EXCEPT ![p] = None]
  /\ wrote' = [wrote EXCEPT ![p] = IF g.cache # cache THEN {"lookup"} ELSE {}]
  /\ IF IsHit(g.ret)
     THEN /\ pc' = [pc EXCEPT ![p] = "done"]
          /\ calls' = [calls EXCEPT ![p] = <<>>]
          /\ out' = [out EXCEPT ![p] = [kind |-> "ok", value |-> g.ret.result]]
     ELSE /\ pc' = [pc EXCEPT ![p] = Facets[1]]
          /\ calls' = [calls EXCEPT ![p] = <<Facets[1]>>]
          /\ out' = [out EXCEPT ![p] = [kind |-> "none"]]
  /\ UNCHANGED <<now, max_size, ttl_seconds, last, card>>

\* The awaited call of request p comes back with r; the coroutine runs on to
\* its next await, or to its end.
Return(p, r) ==
  LET f == pc[p]
      w == AwaitResult(f, r)
      locals == [res[p] EXCEPT ![f] = w.value]
  IN
  /\ pc[p] \in FacetSet
  /\ act' = "return"
  /\ actor' = p
  /\ IF w.raised
     THEN /\ pc' = [pc EXCEPT ![p] = "failed"]
          /\ out' = [out EXCEPT ![p] = [kind |-> "error", error |-> r.error]]
          /\ UNCHANGED <<cache, lru, res, calls, last_evaluation_data, wrote>>
     ELSE IF FacetIndex(f) < Len(Facets)
     THEN /\ res' = [res EXCEPT ![p] = locals]
          /\ pc' = [pc EXCEPT ![p] = Facets[FacetIndex(f) + 1]]
          /\ calls' = [calls EXCEPT ![p] = Append(@, Facets[FacetIndex(f) + 1])]
          /\ UNCHANGED <<cache, lru, out, last_evaluation_data, wrote>>
     ELSE \E tail \in {EvalTail(locals, now, ties) : ties \in TieModes} :
          LET s == LRUCache_set(cache, cache_key(p, url[p]), tail.value,
                                max_size, ttl_seconds, now)
          IN
          /\ res' = [res EXCEPT ![p] = locals]
          /\ IF StoresResult(tail.data)
             THEN /\ cache' = s.cache
                  /\ lru' = Purge(Touch(lru, cache_key(p, url[p])), s.cache)
                  /\ wrote' = [wrote EXCEPT ![p] = @ \cup {"store"}]
                  /\ calls' = [calls EXCEPT ![p] = @ \o tail.stages \o <<"cache_set">>]
             ELSE /\ UNCHANGED <<cache, lru, wrote>>
                  /\ calls' = [calls EXCEPT ![p] = @ \o tail.stages]
          /\ IF tail.ok
             THEN /\ pc' = [pc EXCEPT ![p] = "done"]
                  /\ out' = [out EXCEPT ![p] = [kind |-> "ok", value |-> tail.value.result]]
                  /\ last_evaluation_data' = [last_evaluation_data EXCEPT ![p] = tail.data]
             ELSE /\ pc' = [pc EXCEPT ![p] = "failed"]
                  /\ out' = [out EXCEPT ![p] = [kind |-> "error", error |-> tail.error]]
                  /\ UNCHANGED last_evaluation_data
  /\ UNCHANGED <<now, max_size, ttl_seconds, last, url, card>>

\* The caller gives up while the request waits for a client call:
\* CancelledError is no Exception, so neither try/except nor _safe_call
\* holds it back.
Cancel(p) ==
  /\ pc[p] \in FacetSet
  /\ pc' = [pc EXCEPT ![p] = "cancelled"]
  /\ out' = [out EXCEPT ![p] = [kind |-> "cancelled"]]
  /\ act' = "cancel"
  /\ actor' = p
  /\ UNCHANGED <<now, max_size, ttl_seconds, cache, last, lru,
                 url, res, calls, last_evaluation_data, wrote, card>>

\* -------- one evaluator at a time, with the cache maintenance calls and the
\* clock in between; the results are those that steer the control flow
InitEval ==
  /\ InitReqs
  /\ now = 0
  /\ max_size \in 1..MaxSize
  /\ ttl_seconds = 1
  /\ cache = <<>>
  /\ act = "init"
  /\ last = NoOp
  /\ lru = <<>>

NextEval ==
  \/ Tick
  \/ \E u \in Urls : Start("r1", u)
  \/ \E r \in BasicResults(pc["r1"], url["r1"]) : Return("r1", r)
  \/ Cancel("r1")
  \/ Clear
  \/ CleanupExpired

SpecEval == InitEval /\ [][NextEval]_vars

\* -------- one collection, over every outcome of every client call
InitCollect ==
  /\ InitReqs
  /\ now = 0
  /\ max_size = 1
  /\ ttl_seconds = 1
  /\ cache = <<>>
  /\ act = "init"
  /\ last = NoOp
  /\ lru = <<>>

NextCollect ==
  \/ /\ pc["r1"] = "idle"
     /\ \E u \in Urls : Start("r1", u)
  \/ \E r \in FullResults(pc["r1"], url["r1"]) : Return("r1", r)

SpecCollect == InitCollect /\ [][NextCollect]_vars

\* -------- two requests in flight, interleaving at their awaits
ConcResults(f, u) ==
  CASE f = "repo_info" -> {Ok(RepoInfo(u, Some("Go"), 5, 2)), Exc("RuntimeError")}
    [] f = "license" -> {Ok(SampleLicense), NoneVal}
    [] f = "readme" -> {Ok(SampleReadme)}
    [] f = "community_profile" -> {Ok(SampleCommunity)}
    [] f = "language_stats" -> {Ok(SampleLanguages)}
    [] f = "repo_structure" -> {Ok(SampleTree)}
    [] f = "issues" -> {Ok(SampleIssues)}
    [] f = "pull_requests" -> {Ok(SamplePulls)}
    [] f = "releases" -> {Ok(SampleReleases)}
    [] f = "branches" -> {Ok(SampleBranches)}
    [] OTHER -> {}

InitConc ==
  /\ InitReqs
  /\ now = 0
  /\ max_size \in 1..MaxSize
  /\ ttl_seconds = 1
  /\ cache = <<>>
  /\ act = "init"
  /\ last = NoOp
  /\ lru = <<>>

NextConc ==
  \/ Tick
  \/ \E p \in Reqs, u \in Urls : pc[p] = "idle" /\ Start(p, u)
  \/ \E p \in Reqs : \E r \in ConcResults(pc[p], url[p]) : Return(p, r)

SpecConc == InitConc /\ [][NextConc]_vars

\* -------- two evaluator instances, each used once, with the clock and the
\* class methods clear_cache and cleanup_expired_cache in between
SharedResults(f, u) ==
  CASE f = "repo_info" -> {Ok(RepoInfo(u, Some("Go"), 5, 2))}
    [] f = "license" -> {Ok(SampleLicense)}
    [] f = "readme" -> {Ok(SampleReadme)}
    [] f = "community_profile" -> {Ok(SampleCommunity)}
    [] f = "language_stats" -> {Ok(SampleLanguages)}
    [] f = "repo_structure" -> {Ok(SampleTree)}
    [] f = "issues" -> {Ok(SampleIssues)}
    [] f = "pull_requests" -> {Ok(SamplePulls)}
    [] f = "releases" -> {Ok(SampleReleases)}
    [] f = "branches" -> {Ok(SampleBranches)}
    [] OTHER -> {}

InitShared ==
  /\ InitReqs
  /\ now = 0
  /\ max_size = MaxSize
  /\ ttl_seconds = 1
  /\ cache = <<>>
  /\ act = "init"
  /\ last = NoOp
  /\ lru = <<>>

NextShared ==
  \/ Tick
  \/ \E p \in Reqs, u \in Urls : pc[p] = "idle" /\ Start(p, u)
  \/ \E p \in Reqs : \E r \in SharedResults(pc[p], url[p]) : Return(p, r)
  \/ Clear
  \/ CleanupExpired

SpecShared == InitShared /\ [][NextShared]_vars

\* -------- one caller naming repositories in the forms _parse_github_url takes
UrlForms == {"a/x", "https://github.com/a/x", "git@github.com:a/x.git", "b/y"}

\* _parse_github_url on these strings: (owner, repo)
parse_github_url(u) ==
  CASE u = "a/x" -> <<"a", "x">>
    [] u = "https://github.com/a/x" -> <<"a", "x">>
    [] u = "git@github.com:a/x.git" -> <<"a", "x">>
    [] u = "b/y" -> <<"b", "y">>
    [] OTHER -> None

\* full_name of the repository the API answers for
full_name_of(u) ==
  CASE parse_github_url(u) = <<"a", "x">> -> "a/x"
    [] parse_github_url(u) = <<"b", "y">> -> "b/y"
    [] OTHER -> ""

AliasResults(f, u) ==
  CASE f = "repo_info" -> {Ok(RepoInfo(full_name_of(u), Some("Go"), 5, 2))}
    [] f = "license" -> {Ok(SampleLicense)}
    [] f = "readme" -> {Ok(SampleReadme)}
    [] f = "community_profile" -> {Ok(SampleCommunity)}
    [] f = "language_stats" -> {Ok(SampleLanguages)}
    [] f = "repo_structure" -> {Ok(SampleTree)}
    [] f = "issues" -> {Ok(SampleIssues)}
    [] f = "pull_requests" -> {Ok(SamplePulls)}
    [] f = "releases" -> {Ok(SampleReleases)}
    [] f = "branches" -> {Ok(SampleBranches)}
    [] OTHER -> {}

InitAlias ==
  /\ InitReqs
  /\ now = 0
  /\ max_size = MaxSize
  /\ ttl_seconds = 1
  /\ cache = <<>>
  /\ act = "init"
  /\ last = NoOp
  /\ lru = <<>>

NextAlias ==
  \/ Tick
  \/ \E u \in UrlForms : Start("r1", u)
  \/ \E r \in AliasResults(pc["r1"], url["r1"]) : Return("r1", r)

SpecAlias == InitAlias /\ [][NextAlias]_vars

\* -------- the scorer and the assembly on metrics records
DocProfiles ==
  {[has_readme |-> FALSE, readme_length |-> 0, has_license |-> FALSE,
    license_name |-> None, has_contributing |-> FALSE,
    has_code_of_conduct |-> FALSE, has_standard_dirs |-> FALSE,
    protected_branches |-> 0],
   [has_readme |-> TRUE, readme_length |-> 499, has_license |-> TRUE,
    license_name |-> Some("MIT"), has_contributing |-> TRUE,
    has_code_of_conduct |-> FALSE, has_standard_dirs |-> FALSE,
    protected_branches |-> 3],
   [has_readme |-> TRUE, readme_length |-> 500, has_license |-> TRUE,
    license_name |-> Some("MIT"), has_contributing |-> TRUE,
    has_code_of_conduct |-> TRUE, has_standard_dirs |-> TRUE,
    protected_branches |-> 6]}

ReleaseProfiles ==
  {[release_count |-> n, releases_last_year |-> n] : n \in {0, 1, 2, 4, 6}}

AgeProfiles ==
  {[age_in_days |-> a[1], updated_at |-> 0 - a[2] * 86400,
    maintained_days |-> Max(0, a[1] - a[2])] :
     a \in {<<0, 0>>, <<400, 31>>, <<800, 90>>, <<200, 181>>, <<1100, 366>>, <<1095, 30>>}}

IssueProfiles ==
  {[open_issues |-> 0, closed_issues |-> 0, issue_comments_total |-> 0,
    issue_comments_avg |-> Zero],
   [open_issues |-> 0, closed_issues |-> 3, issue_comments_total |-> 9,
    issue_comments_avg |-> Ratio(9, 3)],
   [open_issues |-> 2, closed_issues |-> 1, issue_comments_total |-> 1,
    issue_comments_avg |-> Ratio(1, 3)],
   [open_issues |-> 1, closed_issues |-> 1, issue_comments_total |-> 2,
    issue_comments_avg |-> Ratio(2, 2)],
   [open_issues |-> 5, closed_issues |-> 0, issue_comments_total |-> 0,
    issue_comments_avg |-> Zero]}

PullProfiles ==
  {[total_prs |-> 0, merged_prs |-> 0, pr_comments_total |-> 0,
    pr_comment_density |-> Zero],
   [total_prs |-> 3, merged_prs |-> 1, pr_comments_total |-> 2,
    pr_comment_density |-> Ratio(2, 1)],
   [total_prs |-> 5, merged_prs |-> 5, pr_comments_total |-> 5,
    pr_comment_density |-> Ratio(5, 5)],
   [total_prs |-> 3, merged_prs |-> 2, pr_comments_total |-> 1,
    pr_comment_density |-> Ratio(1, 2)],
   [total_prs |-> 1, merged_prs |-> 0, pr_comments_total |-> 0,
    pr_comment_density |-> Zero]}

CommunityProfiles ==
  {[stars |-> c[1], forks |-> c[2], contributors |-> c[3]] :
     c \in {<<0, 0, 0>>, <<5, 5, 5>>, <<50, 12, 3>>, <<99999, 9999, 600>>}}

LanguageProfiles ==
  {[primary_language |-> None, language_count |-> 0],
   [primary_language |-> Some("Go"), language_count |-> 3],
   [primary_language |-> Some("Go"), language_count |-> 6]}

\* ProjectEvaluationData records as _collect_data returns them
MetricsRecords ==
  {[raised |-> "", full_name |-> "a/x", url |-> "a/x"]
     @@ d @@ n @@ a @@ i @@ q @@ c @@ l :
     d \in DocProfiles, n \in ReleaseProfiles, a \in AgeProfiles,
     i \in IssueProfiles, q \in PullProfiles, c \in CommunityProfiles,
     l \in LanguageProfiles}

\* evaluate_project from the return of _collect_data to the assembled result
Evaluate(p) ==
  /\ pc[p] = "collected"
  /\ pc' = [pc EXCEPT ![p] = "done"]
  /\ \E value \in {Assemble(last_evaluation_data[p], now, ties) : ties \in TieModes} :
       out' = [out EXCEPT ![p] = [kind |-> "ok", value |-> value]]
  /\ calls' = [calls EXCEPT ![p] = @ \o <<"calculate_scores", "assemble">>]
  /\ act' = "score"
  /\ actor' = p
  /\ UNCHANGED <<now, max_size, ttl_seconds, cache, last, lru,
                 url, res, last_evaluation_data, wrote, card>>

InitScore ==
  /\ now = 0
  /\ max_size = 1
  /\ ttl_seconds = 1
  /\ cache = <<>>
  /\ act = "init"
  /\ last = NoOp
  /\ lru = <<>>
  /\ pc = [p \in Reqs |-> IF p = "r1" THEN "collected" ELSE "idle"]
  /\ url = [p \in Reqs |-> IF p = "r1" THEN "a/x" ELSE ""]
  /\ res = [p \in Reqs |-> [f \in FacetSet |-> Pending]]
  /\ calls = [p \in Reqs |-> <<>>]
  /\ out = [p \in Reqs |-> [kind |-> "none"]]
  /\ \E data \in MetricsRecords :
       last_evaluation_data = [p \in Reqs |-> IF p = "r1" THEN data ELSE None]
  /\ wrote = [p \in Reqs |-> {}]
  /\ actor = ""
  /\ card = [p \in Reqs |-> None]

NextScore == Evaluate("r1")

SpecScore == InitScore /\ [][NextScore]_vars

\* -------- a record scored again, later
\* a day goes by on the clock datetime.now reads
DayPasses ==
  /\ now < MaxTime * 86400
  /\ now' = now + 86400
  /\ act' = "day"
  /\ UNCHANGED <<max_size, ttl_seconds, cache, last, lru>>
  /\ UNCHANGED reqvars

\* generate_evaluation_card(evaluation, raw_data) on the result and the record
\* of request p: the record is scored again, at the time of this call
generate_evaluation_card(p) ==
  /\ pc[p] = "done"
  /\ out[p].kind = "ok"
  /\ last_evaluation_data[p] # None
  /\ \E scores \in {calculate_scores(last_evaluation_data[p], now, ties) :
                       ties \in TieModes} :
       card' = [card EXCEPT ![p] =
                  [json_data |-> out[p].value,
                   raw_data |-> last_evaluation_data[p],
                   scores |-> scores]]
  /\ act' = "card"
  /\ actor' = p
  /\ UNCHANGED <<now, max_size, ttl_seconds, cache, last, lru,
                 pc, url, res, calls, out, last_evaluation_data, wrote>>

\* records whose last update lies on and off the ends of the freshness tiers
RescoreRecords ==
  {d \in MetricsRecords :
     /\ d.readme_length = 500
     /\ d.stars = 50
     /\ d.language_count = 3
     /\ d.total_prs \in {0, 5}}

InitRescore ==
  /\ now = 0
  /\ max_size = 1
  /\ ttl_seconds = 1
  /\ cache = <<>>
  /\ act = "init"
  /\ last = NoOp
  /\ lru = <<>>
  /\ pc = [p \in Reqs |-> IF p = "r1" THEN "collected" ELSE "idle"]
  /\ url = [p \in Reqs |-> IF p = "r1" THEN "a/x" ELSE ""]
  /\ res = [p \in Reqs |-> [f \in FacetSet |-> Pending]]
  /\ calls = [p \in Reqs |-> <<>>]
  /\ out = [p \in Reqs |-> [kind |-> "none"]]
  /\ \E data \in RescoreRecords :
       last_evaluation_data = [p \in Reqs |-> IF p = "r1" THEN data ELSE None]
  /\ wrote = [p \in Reqs |-> {}]
  /\ actor = ""
  /\ card = [p \in Reqs |-> None]

NextRescore ==
  \/ DayPasses
  \/ Evaluate("r1")
  \/ generate_evaluation_card("r1")

SpecRescore == InitRescore /\ [][NextRescore]_vars

\* -------- records of three kinds of repository
\* nothing documented, nothing released within the year, last updated 800
\* days ago, no stars, forks or contributors; the other fields vary
LowRecords ==
  {[raised |-> "", full_name |-> "a/x", url |-> "a/x",
    has_readme |-> FALSE, readme_length |-> 0, has_license |-> FALSE,
    license_name |-> None, has_contributing |-> FALSE,
    has_code_of_conduct |-> FALSE,
    has_standard_dirs |-> dirs, protected_branches |-> b,
    release_count |-> n, releases_last_year |-> 0,
    age_in_days |-> age, updated_at |-> 0 - 800 * 86400,
    maintained_days |-> Max(0, age - 800),
    stars |-> 0, forks |-> 0, contributors |-> 0]
     @@ i @@ q @@ l :
     dirs \in BOOLEAN, b \in {0, 2, 6}, n \in {0, 3}, age \in {800, 1100, 1600},
     i \in IssueProfiles, q \in PullProfiles, l \in LanguageProfiles}

\* no stars, but forks and contributors
ForkedRecords ==
  {[raised |-> "", full_name |-> "a/x", url |-> "a/x",
    has_readme |-> TRUE, readme_length |-> 499, has_license |-> TRUE,
    license_name |-> Some("MIT"), has_contributing |-> FALSE,
    has_code_of_conduct |-> FALSE, has_standard_dirs |-> FALSE,
    protected_branches |-> 0,
    primary_language |-> Some("Go"), language_count |-> 3,
    stars |-> 0, forks |-> 5, contributors |-> 5]
     @@ n @@ a @@ i @@ q :
     n \in ReleaseProfiles, a \in AgeProfiles,
     i \in IssueProfiles, q \in PullProfiles}

\* documented, released seven times within the year, updated 5 days ago, two
\* protected branches, one main language of three, standard directories
KeptRecords ==
  {[raised |-> "", full_name |-> "a/x", url |-> "a/x",
    has_readme |-> TRUE, readme_length |-> 600, has_license |-> TRUE,
    license_name |-> Some("MIT"), has_contributing |-> TRUE,
    has_code_of_conduct |-> TRUE, has_standard_dirs |-> TRUE,
    protected_branches |-> 2,
    release_count |-> 7, releases_last_year |-> 7,
    age_in_days |-> 400, updated_at |-> 0 - 5 * 86400,
    maintained_days |-> 395,
    primary_language |-> Some("Go"), language_count |-> 3]
     @@ i @@ q @@ c :
     i \in IssueProfiles, q \in PullProfiles, c \in CommunityProfiles}

ProfileRecords == LowRecords \cup ForkedRecords \cup KeptRecords

InitProfile ==
  /\ now = 0
  /\ max_size = 1
  /\ ttl_seconds = 1
  /\ cache = <<>>
  /\ act = "init"
  /\ last = NoOp
  /\ lru = <<>>
  /\ pc = [p \in Reqs |-> IF p = "r1" THEN "collected" ELSE "idle"]
  /\ url = [p \in Reqs |-> IF p = "r1" THEN "a/x" ELSE ""]
  /\ res = [p \in Reqs |-> [f \in FacetSet |-> Pending]]
  /\ calls = [p \in Reqs |-> <<>>]
  /\ out = [p \in Reqs |-> [kind |-> "none"]]
  /\ \E data \in ProfileRecords :
       last_evaluation_data = [p \in Reqs |-> IF p = "r1" THEN data ELSE None]
  /\ wrote = [p \in Reqs |-> {}]
  /\ actor = ""
  /\ card = [p \in Reqs |-> None]

NextProfile == Evaluate("r1")

SpecProfile == InitProfile /\ [][NextProfile]_vars

\* ------------------------------------------------------------ cache claims
Distinct(c) == \A i, j \in 1..Len(c) : c[i].key = c[j].key => i = j

\* C1: whatever get, set, clear and cleanup_expired calls were made on a cache
\* with max_size >= 1, it never stores more than max_size entries (and never
\* two for one key).
C1_SizeBounded ==
  /\ get_stats(cache, max_size, ttl_seconds).size <= max_size
  /\ Distinct(cache)

\* a set into a full cache has returned, having evicted
C1_Witness ==
  /\ act = "set" /\ last.pos = 0
  /\ Len(last.evicted) = 1
  /\ Len(cache) = max_size

\* C2: a set of a new key into a cache holding max_size entries evicts exactly
\* one entry, the one whose last set / successful get is oldest; every other
\* entry stays as it was and the new key is stored.
C2_SetStep ==
  (/\ act' = "set"
   /\ ~HasKey(cache, last'.key)
   /\ Len(cache) = max_size)
  => /\ last'.evicted = <<Head(lru)>>
     /\ Len(cache') = max_size
     /\ KeySet(cache') = (KeySet(cache) \ {Head(lru)}) \cup {last'.key}
     /\ \A k \in KeySet(cache) \ {Head(lru)} : EntryOf(cache', k) = EntryOf(cache, k)
     /\ EntryOf(cache', last'.key).value = last'.arg

C2_EvictsLeastRecentlyUsed == [][C2_SetStep]_vars

\* max_size + 1 = 3 distinct keys were set and the first one went
C2_Witness ==
  /\ act = "set" /\ last.pos = 0
  /\ max_size = 2
  /\ Len(last.evicted) = 1
  /\ last.evicted[1] \notin KeySet(cache)
  /\ Len(cache) = 2

\* C3: a get of a key whose entry is older than its TTL returns None and
\* removes the entry: the size get_stats reports drops by one, the other
\* entries are untouched, and the key is absent for the next get.
C3_GetStep ==
  (/\ act' = "get"
   /\ HasKey(cache, last'.key)
   /\ now - EntryOf(cache, last'.key).timestamp > EntryOf(cache, last'.key).ttl)
  => /\ last'.ret = None
     /\ ~HasKey(cache', last'.key)
     /\ get_stats(cache', max_size, ttl_seconds).size
          = get_stats(cache, max_size, ttl_seconds).size - 1
     /\ \A k \in KeySet(cache) \ {last'.key} : HasKey(cache', k)
     /\ LRUCache_get(cache', last'.key, now').ret = None

C3_ExpiredGetRemoves == [][C3_GetStep]_vars

\* a get has just found its entry expired and removed it
C3_Witness ==
  /\ act = "get" /\ last.pos > 0
  /\ last.ret = None
  /\ last.count = 1
  /\ ~HasKey(cache, last.key)

\* C4: set(k, v) followed at once by get(k), no more than ttl_seconds after
\* the set, returns v.
C4_GetStep ==
  (/\ act' = "get"
   /\ last.op = "set"
   /\ last'.key = last.key
   /\ HasKey(cache, last.key)
   /\ now - EntryOf(cache, last.key).timestamp <= ttl_seconds)
  => last'.ret = last.arg

C4_RoundTrip == [][C4_GetStep]_vars

\* a get directly after the set of its key, with time passed in between
C4_Witness ==
  /\ act = "get"
  /\ last.prevop = "set" /\ last.prevkey = last.key
  /\ last.ret \in Vals
  /\ HasKey(cache, last.key)
  /\ now > EntryOf(cache, last.key).timestamp

\* C5: a get that hits an unexpired entry moves its key to the most recently
\* used end and keeps the order of the other keys; evictions take keys from
\* the other end, so of the keys then present it is the last to be evicted.
C5_GetStep ==
  (act' = "get" /\ last'.ret # None)
  => /\ KeysOf(cache') = Touch(KeysOf(cache), last'.key)
     /\ \A k \in KeySet(cache) : EntryOf(cache', k) = EntryOf(cache, k)

C5_EvictStep ==
  (act' = "set" /\ last'.evicted # <<>>)
  => \A i \in 1..Len(last'.evicted) :
       /\ last'.evicted[i] = KeysOf(cache)[i]
       /\ last'.evicted[i] # last'.key

C5_HitRefreshesRecency == [][C5_GetStep /\ C5_EvictStep]_vars

\* a hit on the oldest of two entries has made it the newest
C5_Witness ==
  /\ act = "get" /\ last.ret # None
  /\ last.pos = 1
  /\ Len(cache) = 2
  /\ cache[2].key = last.key

\* -------------------------------------------------------- evaluator claims
Fresh(c, k, t) == HasKey(c, k) /\ t - EntryOf(c, k).timestamp <= EntryOf(c, k).ttl

EntrySet(c) == {c[i] : i \in 1..Len(c)}

AllStages == Facets \o <<"process", "calculate_scores", "assemble", "cache_set">>

\* C6: evaluate_project looks the identifier up first.  On a hit it returns
\* the stored evaluation, calls neither the client nor the scorer and stores
\* nothing; on a miss it starts collecting, and when it completes it has made
\* every call, scored, assembled, stored the result under the same identifier
\* and returns that result.
C6_HitStep ==
  \A p \in Reqs :
    (act' = "evaluate_project" /\ actor' = p /\ Fresh(cache, url'[p], now))
    => /\ pc'[p] = "done"
       /\ out'[p] = [kind |-> "ok", value |-> EntryOf(cache, url'[p]).value.result]
       /\ calls'[p] = <<>>
       /\ EntrySet(cache') = EntrySet(cache)

C6_MissStep ==
  \A p \in Reqs :
    (act' = "evaluate_project" /\ actor' = p /\ ~Fresh(cache, url'[p], now))
    => /\ pc'[p] = "repo_info"
       /\ calls'[p] = <<"repo_info">>
       /\ ~HasKey(cache', url'[p])

C6_FinishStep ==
  \A p \in Reqs :
    (act' = "return" /\ actor' = p /\ pc'[p] = "done")
    => /\ calls'[p] = AllStages
       /\ out'[p].kind = "ok"
       /\ \E ties \in TieModes :
            out'[p].value = Assemble(last_evaluation_data'[p], now, ties)
       /\ cache' # <<>>
       /\ cache'[Len(cache')].key = url[p]
       /\ cache'[Len(cache')].value.result = out'[p].value

C6_CacheThenCompute == [][C6_HitStep /\ C6_MissStep /\ C6_FinishStep]_vars

\* a hit on a result that an earlier invocation stored
C6_Witness ==
  /\ pc["r1"] = "done"
  /\ calls["r1"] = <<>>
  /\ out["r1"].kind = "ok"
  /\ out["r1"].value.repo_full_name = url["r1"]
  /\ out["r1"].value.evaluated_at < now

Ended(p) == pc[p] \in {"failed", "cancelled"}

\* C7 as stated: an invocation that failed or was abandoned has left the cache
\* exactly as it was before its own steps.
C7_Original == \A p \in Reqs : Ended(p) => wrote[p] = {}

CompleteResult(v) ==
  /\ v.result # None
  /\ DOMAIN v.result = {"repo_full_name", "repo_url", "evaluated_at",
                        "total_score", "confidence", "rating", "code_quality",
                        "activity", "community_health", "key_metrics",
                        "recommendation"}

C7_State ==
  /\ \A p \in Reqs : Ended(p) => wrote[p] \subseteq {"lookup"}
  /\ \A i \in 1..Len(cache) :
       cache[i].key \in Urls => CompleteResult(cache[i].value)

C7_Step ==
  \A p \in Reqs :
    /\ (act' = "evaluate_project" /\ actor' = p /\ cache' # cache
          /\ pc'[p] # "done")
       => /\ HasKey(cache, url'[p])
          /\ now - EntryOf(cache, url'[p]).timestamp > EntryOf(cache, url'[p]).ttl
          /\ cache' = DelKey(cache, url'[p])
    /\ (act' \in {"return", "cancel"} /\ actor' = p /\ pc'[p] # "done")
       => cache' = cache

\* C7, amended: the lookup may remove the expired entry of the invocation's
\* own identifier; apart from that an invocation that fails or is abandoned
\* changes nothing in the cache, and every stored value is a complete result.
C7_Amended == []C7_State /\ [][C7_Step]_vars

\* an abandoned or failed invocation whose lookup removed an expired entry
C7_Witness ==
  /\ Ended("r1")
  /\ wrote["r1"] = {"lookup"}
  /\ ~HasKey(cache, url["r1"])

\* C8: evaluate_project fails only through the mandatory get_repo_info call,
\* with ValueError (not found) or RuntimeError (upstream error); no outcome of
\* an optional call makes it fail.
C8_OnlyFatalKinds ==
  \A p \in Reqs :
    pc[p] = "failed"
    => /\ out[p].error \in {"ValueError", "RuntimeError"}
       /\ calls[p] = <<"repo_info">>

MandatoryOk(p) == res[p]["repo_info"].tag = "ok"

\* C9: once get_repo_info succeeded, the nine optional calls are made one
\* after the other, each exactly once, whichever of them failed.
C9_EveryFacetCalled ==
  \A p \in Reqs :
    /\ pc[p] \in FacetSet => calls[p] = SubSeq(Facets, 1, FacetIndex(pc[p]))
    /\ (MandatoryOk(p) /\ pc[p] \in {"done", "failed"})
       => /\ Len(calls[p]) >= Len(Facets)
          /\ SubSeq(calls[p], 1, Len(Facets)) = Facets
          /\ \A i \in Len(Facets) + 1..Len(calls[p]) : calls[p][i] \notin FacetSet

\* collection came to its end although three optional calls had failed
C9_Witness ==
  /\ pc["r1"] = "done"
  /\ res["r1"]["readme"] = CaughtNone
  /\ res["r1"]["license"].tag = "exc"
  /\ res["r1"]["issues"].tag = "exc"
  /\ res["r1"]["branches"].tag = "ok"
  /\ SubSeq(calls["r1"], 1, Len(Facets)) = Facets

AllOptionalFailed(p) ==
  /\ MandatoryOk(p)
  /\ res[p]["readme"] = CaughtNone
  /\ \A f \in OptionalFacets \ {"readme"} : res[p][f].tag = "exc"

BooleansFalse(d) ==
  /\ ~d.has_readme /\ ~d.has_license /\ ~d.has_contributing
  /\ ~d.has_code_of_conduct /\ ~d.has_standard_dirs

OptionalCountsZero(d) ==
  /\ d.readme_length = 0 /\ d.release_count = 0 /\ d.releases_last_year = 0
  /\ d.closed_issues = 0 /\ d.issue_comments_total = 0
  /\ d.issue_comments_avg.num = 0
  /\ d.total_prs = 0 /\ d.merged_prs = 0 /\ d.pr_comments_total = 0
  /\ d.pr_comment_density.num = 0
  /\ d.protected_branches = 0

\* C10 as stated: with the mandatory call succeeding and every optional call
\* failing, _collect_data does not raise and every boolean of the record is
\* false and every count is zero.
C10_Original ==
  \A p \in Reqs :
    (AllOptionalFailed(p) /\ pc[p] \in {"done", "failed"})
    => /\ pc[p] = "done"
       /\ BooleansFalse(last_evaluation_data[p])
       /\ OptionalCountsZero(last_evaluation_data[p])
       /\ last_evaluation_data[p].language_count = 0
       /\ last_evaluation_data[p].open_issues = 0
       /\ last_evaluation_data[p].stars = 0
       /\ last_evaluation_data[p].forks = 0
       /\ last_evaluation_data[p].contributors = 0

\* C10, amended: then _collect_data does not raise, every boolean is false
\* and every count taken from an optional call is zero; stars, forks,
\* contributors and open_issues are those of the repository metadata, and the
\* language fields fall back to the metadata's language (count 1 if it names
\* one, else 0).
C10_Amended ==
  \A p \in Reqs :
    (AllOptionalFailed(p) /\ pc[p] \in {"done", "failed"})
    => /\ pc[p] = "done"
       /\ BooleansFalse(last_evaluation_data[p])
       /\ OptionalCountsZero(last_evaluation_data[p])
       /\ last_evaluation_data[p].license_name = None
       /\ LET d == last_evaluation_data[p]
              m == res[p]["repo_info"].val
          IN /\ d.stars = m.stars /\ d.forks = m.forks
             /\ d.contributors = m.contributors
             /\ d.open_issues = m.issues
             /\ d.primary_language = m.language
             /\ d.language_count = (IF m.language # None THEN 1 ELSE 0)

\* all nine optional calls failed for a repository with stars and a language
C10_Witness ==
  /\ AllOptionalFailed("r1")
  /\ pc["r1"] = "done"
  /\ last_evaluation_data["r1"].stars = 5
  /\ last_evaluation_data["r1"].language_count = 1

C11_Step ==
  \A p \in Reqs :
    (act' = "return" /\ actor' = p /\ pc[p] = "repo_info")
    => IF pc'[p] = "failed"
       THEN /\ out'[p].kind = "error"
            /\ out'[p].error \in {"ValueError", "RuntimeError"}
            /\ calls'[p] = <<"repo_info">>
            /\ res'[p]["repo_info"] = Pending
            /\ cache' = cache
            /\ last_evaluation_data'[p] = None
       ELSE /\ res'[p]["repo_info"].tag = "ok"
            /\ pc'[p] = "readme"

C11_State ==
  \A p \in Reqs :
    (pc[p] = "failed" /\ ~MandatoryOk(p))
    => /\ calls[p] = <<"repo_info">>
       /\ "store" \notin wrote[p]
       /\ ~HasKey(cache, url[p])
       /\ last_evaluation_data[p] = None

\* C11: when get_repo_info raises, the invocation ends there with that error:
\* no further client call, no reduction, no scoring, nothing stored, and the
\* cache has no entry under its identifier.
C11_MandatoryFailureStops == []C11_State /\ [][C11_Step]_vars

\* get_repo_info raised ValueError while the result of another repository
\* was in the cache
C11_Witness ==
  /\ pc["r1"] = "failed"
  /\ out["r1"].error = "ValueError"
  /\ calls["r1"] = <<"repo_info">>
  /\ cache # <<>>
  /\ ~HasKey(cache, url["r1"])

C12_Order ==
  <<"repo_info", "readme", "license", "community_profile", "language_stats",
    "repo_structure", "issues", "pull_requests", "releases", "branches",
    "process", "calculate_scores", "assemble", "cache_set">>

C12_Step ==
  \A p \in Reqs :
    (act' \in {"return", "cancel"} /\ actor' = p)
    => /\ Len(calls'[p]) >= Len(calls[p])
       /\ SubSeq(calls'[p], 1, Len(calls[p])) = calls[p]

\* C12: what one invocation has done so far is always an initial part of:
\* metadata, README, license, community profile, languages, tree, issues,
\* pull requests, releases, branches, reduction, scoring, assembly, cache
\* insertion; each step only adds to it.
C12_FixedOrder ==
  /\ [](\A p \in Reqs :
         \E n \in 0..Len(C12_Order) : calls[p] = SubSeq(C12_Order, 1, n))
  /\ [][C12_Step]_vars

\* an invocation that went all the way to the cache insertion
C12_Witness ==
  /\ pc["r1"] = "done"
  /\ calls["r1"] = C12_Order
  /\ HasKey(cache, url["r1"])

C13_State ==
  /\ Distinct(cache)
  /\ Len(cache) <= max_size
  /\ \A i \in 1..Len(cache) : CompleteResult(cache[i].value)
  /\ \A p \in Reqs :
       pc[p] = "done"
       => /\ out[p].kind = "ok"
          /\ CompleteResult([result |-> out[p].value, age_seconds |-> 0])

C13_Step ==
  \A p \in Reqs :
    /\ (act' \in {"evaluate_project", "return"} /\ actor' = p)
       => \A q \in Reqs \ {p} :
            /\ pc'[q] = pc[q] /\ res'[q] = res[q] /\ calls'[q] = calls[q]
            /\ out'[q] = out[q] /\ url'[q] = url[q]
    /\ (act' = "return" /\ actor' = p /\ pc'[p] = "done")
       => /\ calls'[p] = AllStages
          /\ \E ties \in TieModes :
               out'[p].value = Assemble(ProcessData(res'[p], now), now, ties)
          /\ cache'[Len(cache')] =
                CacheEntry(url[p], [result |-> out'[p].value, age_seconds |-> 0],
                           ttl_seconds, now)
          /\ EntrySet(cache') \ {cache'[Len(cache')]} \subseteq EntrySet(cache)
          /\ \A k \in KeySet(cache) \ KeySet(cache') :
               k = Head(cache).key /\ Len(cache) = max_size /\ ~HasKey(cache, url[p])

\* C13: with two invocations interleaving at their awaits, the same identifier
\* included, a step of one leaves the other's locals alone, each that
\* completes has made its own full collection and stores and returns the
\* result of it, and the cache always has one entry per key at most, never
\* more than max_size entries, and complete results only.
C13_ConcurrentMisses == []C13_State /\ [][C13_Step]_vars

\* both requests missed for the same identifier, collected and stored
C13_Witness ==
  /\ pc["r1"] = "done" /\ pc["r2"] = "done"
  /\ url["r1"] = url["r2"]
  /\ calls["r1"] = AllStages /\ calls["r2"] = AllStages
  /\ Len(SelectSeq(cache, LAMBDA e : e.key = url["r1"])) = 1

SameRepository(u, v) ==
  parse_github_url(u) # None /\ parse_github_url(u) = parse_github_url(v)

C14_Step ==
  \A p \in Reqs :
    (/\ act' = "evaluate_project" /\ actor' = p
     /\ \E i \in 1..Len(cache) :
          /\ SameRepository(cache[i].key, url'[p])
          /\ now - cache[i].timestamp <= cache[i].ttl)
    => /\ pc'[p] = "done"
       /\ calls'[p] = <<>>
       /\ out'[p].kind = "ok"

\* C14: an invocation whose identifier names a repository for which an
\* unexpired result is stored, under whatever form of identifier, is a hit
\* and makes no client call; the cache never holds two entries for one
\* repository.
C14_KeyedByIdentity ==
  /\ [](\A i, j \in 1..Len(cache) :
         SameRepository(cache[i].key, cache[j].key) => i = j)
  /\ [][C14_Step]_vars

C15_Step ==
  act' = "cleanup_expired"
  => /\ cache' = SelectSeq(cache, LAMBDA e : ~(now - e.timestamp > e.ttl))
     /\ last'.count = Len(cache) - Len(cache')
     /\ last'.count = Cardinality({i \in 1..Len(cache) :
                                     now - cache[i].timestamp > cache[i].ttl})
     /\ \A i \in 1..Len(cache') : ~(now' - cache'[i].timestamp > cache'[i].ttl)
     /\ max_size' = max_size /\ ttl_seconds' = ttl_seconds

\* C15: cleanup_expired removes exactly the entries older than their TTL and
\* returns their number; the entries that stay keep their values and their
\* order, and none of them is expired.
C15_CleanupExpired == [][C15_Step]_vars

\* a cleanup that removed the expired one of two entries and kept the other
C15_Witness ==
  /\ act = "cleanup_expired"
  /\ last.count = 1
  /\ Len(cache) = 1
  /\ ~(now - cache[1].timestamp > cache[1].ttl)

C16_Step ==
  act' = "clear"
  => /\ cache' = <<>>
     /\ get_stats(cache', max_size', ttl_seconds').size = 0
     /\ \A k \in Keys : LRUCache_get(cache', k, now').ret = None
     /\ max_size' = max_size /\ ttl_seconds' = ttl_seconds

\* C16: after clear the cache is empty: the size reported is 0, a get of any
\* key misses, and max_size and ttl_seconds are what they were.
C16_ClearEmpties == [][C16_Step]_vars

\* two entries were stored and a clear removed them
C16_Witness ==
  /\ act = "clear"
  /\ last.count = 2
  /\ get_stats(cache, max_size, ttl_seconds).size = 0

\* ----------------------------------------------------------- scorer claims
Scored(p) == pc[p] = "done" /\ out[p].kind = "ok"

\* C17: each dimension score lies between 0 and its maximum: 30 for code
\* quality, 40 for activity, 30 for community health (scores in tenths).
C17_ScoresInRange ==
  \A p \in Reqs :
    Scored(p)
    => LET v == out[p].value IN
       /\ v.code_quality.max_score = 30
       /\ 0 <= v.code_quality.score /\ v.code_quality.score <= 300
       /\ v.activity.max_score = 40
       /\ 0 <= v.activity.score /\ v.activity.score <= 400
       /\ v.community_health.max_score = 30
       /\ 0 <= v.community_health.score /\ v.community_health.score <= 300

\* a record that earns every point of every dimension
C17_Witness ==
  /\ Scored("r1")
  /\ last_evaluation_data["r1"].stars = 99999
  /\ out["r1"].value.code_quality.score = 300
  /\ out["r1"].value.activity.score = 400
  /\ out["r1"].value.community_health.score = 300

\* the percentages round(100 * score / max, 1) can be for a score given in
\* tenths: the nearest tenth of a percent, either one when halfway
PercentagesOf(score, max_score) ==
  {round_float(100 * score, max_score, FALSE),
   round_float(100 * score, max_score, TRUE)}

\* C18: the percentage of each DimensionScore is round(100 * score / max, 1)
\* of the score stored in the same DimensionScore.
C18_PercentageOfScore ==
  \A p \in Reqs :
    Scored(p)
    => \A d \in {"code_quality", "activity", "community_health"} :
         out[p].value[d].percentage
           \in PercentagesOf(out[p].value[d].score, out[p].value[d].max_score)

\* C19: the stored total is the sum of the three stored dimension scores and
\* lies between 0 and 100 (in tenths: 1000).
C19_TotalIsSum ==
  \A p \in Reqs :
    Scored(p)
    => LET v == out[p].value IN
       /\ v.total_score
            = v.code_quality.score + v.activity.score + v.community_health.score
       /\ 0 <= v.total_score /\ v.total_score <= 1000

\* a result whose three scores are all between their bounds and not whole
C19_Witness ==
  /\ Scored("r1")
  /\ out["r1"].value.activity.score % 10 # 0
  /\ out["r1"].value.community_health.score % 10 # 0
  /\ out["r1"].value.code_quality.score % 10 # 0
  /\ out["r1"].value.total_score > 500

\* the six bands, by their lower ends 85, 75, 65, 55, 45
Band(total) ==
  IF total >= 850 THEN 6
  ELSE IF total >= 750 THEN 5
  ELSE IF total >= 650 THEN 4
  ELSE IF total >= 550 THEN 3
  ELSE IF total >= 450 THEN 2
  ELSE 1

RatingBand(rating) ==
  CASE rating = "A+" -> 6 [] rating = "A" -> 5 [] rating = "B+" -> 4
    [] rating = "B" -> 3 [] rating = "C" -> 2 [] rating = "D" -> 1

RecommendationBand(text) ==
  CASE text = "strongly recommended" -> 6 [] text = "recommended" -> 5
    [] text = "usable" -> 4 [] text = "use with care" -> 3
    [] text = "needs evaluation" -> 2 [] text = "not recommended" -> 1

BandEnds == {0, 449, 450, 549, 550, 649, 650, 749, 750, 849, 850, 1000}

\* C20: the rating and the recommendation of a result are those of the band
\* its stored total lies in, and against the ends of all bands the rating
\* and the recommendation never go down as the total goes up.
C20_SameBand ==
  \A p \in Reqs :
    Scored(p)
    => LET v == out[p].value IN
       /\ RatingBand(v.rating) = Band(v.total_score)
       /\ RecommendationBand(v.recommendation) = Band(v.total_score)
       /\ \A t \in BandEnds :
            /\ (t <= v.total_score
                => /\ RatingBand(get_rating(t)) <= RatingBand(v.rating)
                   /\ RecommendationBand(generate_recommendation(t))
                        <= RecommendationBand(v.recommendation))
            /\ (t >= v.total_score
                => /\ RatingBand(get_rating(t)) >= RatingBand(v.rating)
                   /\ RecommendationBand(generate_recommendation(t))
                        >= RecommendationBand(v.recommendation))

\* a result in the top band below 90
C20_Witness ==
  /\ Scored("r1")
  /\ out["r1"].value.total_score >= 850
  /\ out["r1"].value.total_score < 900
  /\ out["r1"].value.rating = "A+"
  /\ out["r1"].value.recommendation = "strongly recommended"

\* ------------------------------------------------- scoring at two times
\* the dimension scores and percentages of a scoring
ScoresOf(scores) ==
  [d \in {"code_quality", "activity", "community_health"} |->
     <<scores[d].score, scores[d].percentage>>]

\* C21: calculate_scores is a pure function of the metrics record: scoring the
\* record again, at any later time, gives the dimension scores and
\* percentages that scoring it at the time of the evaluation gives.
C21_ScoringIsPure ==
  \A p \in Reqs :
    card[p] # None =>
      \E ties \in TieModes :
        ScoresOf(card[p].scores) =
          ScoresOf(calculate_scores(card[p].raw_data,
                                    card[p].json_data.evaluated_at, ties))

\* ------------------------------------------------ set of a stored key
\* C22: set(k, v) on a key already stored replaces its value, leaves one entry
\* for k and the size as it was, evicts nothing, and puts k at the
\* most-recently-used end wherever it stood; the other entries keep their
\* order.
C22_SetStep ==
  (/\ act' = "set"
   /\ HasKey(cache, last'.key))
  => /\ Len(cache') = Len(cache)
     /\ last'.evicted = <<>>
     /\ Len(SelectSeq(cache', LAMBDA e : e.key = last'.key)) = 1
     /\ cache'[Len(cache')] =
          CacheEntry(last'.key, last'.arg, ttl_seconds, now)
     /\ SubSeq(cache', 1, Len(cache') - 1) = DelKey(cache, last'.key)
     /\ lru'[Len(lru')] = last'.key

C22_SetReplaces == [][C22_SetStep]_vars

\* a stored key at the least-recently-used end of a full cache was set again
\* and now stands at the other end, with the value and the time of that set
C22_Witness ==
  /\ act = "set"
  /\ last.pos = 1
  /\ Len(cache) = 2
  /\ max_size = 2
  /\ last.prevop = "set" /\ last.prevkey # last.key
  /\ cache[2].key = last.key
  /\ cache[2].value = last.arg
  /\ cache[2].timestamp > cache[1].timestamp

\* ------------------------------------------------- PR comment density
\* C23: in every collected record the PR comment density is
\* (issue comments total + PR comments total) / max(1, merged PRs), also when
\* no PR is merged and there are comments.
C23_DensityFormula ==
  \A p \in Reqs :
    last_evaluation_data[p] # None =>
      LET data == last_evaluation_data[p] IN
      data.pr_comment_density.num * Max(1, data.merged_prs) =
        (data.issue_comments_total + data.pr_comments_total)
          * data.pr_comment_density.den

\* ---------------------------------------------- three kinds of repository
\* the requests whose record has been scored into a result
Rated == {p \in Reqs : pc[p] = "done" /\ out[p].kind = "ok"
                        /\ last_evaluation_data[p] # None}

\* the days since the last update that the scoring of request p saw
DaysSeen(p) ==
  timedelta_days(out[p].value.evaluated_at - last_evaluation_data[p].updated_at)

IsLow(data) ==
  /\ ~data.has_readme /\ ~data.has_license
  /\ ~data.has_contributing /\ ~data.has_code_of_conduct
  /\ data.releases_last_year = 0
  /\ data.stars = 0 /\ data.forks = 0 /\ data.contributors = 0

\* C24: a record with every documentation flag false, no release in the last
\* year, its last update 800 days ago and no stars, forks or contributors is
\* rated in the lowest band, with a total below 45, whatever its other
\* fields are.
C24_LowestBand ==
  \A p \in Rated :
    (IsLow(last_evaluation_data[p]) /\ DaysSeen(p) = 800)
    => /\ out[p].value.total_score < 450
       /\ out[p].value.rating = "D"

\* such a record got everything its other fields can earn: 12.5 + 13 + 13
C24_Witness ==
  \E p \in Rated :
    /\ IsLow(last_evaluation_data[p]) /\ DaysSeen(p) = 800
    /\ out[p].value.code_quality.score = 125
    /\ out[p].value.activity.score = 130
    /\ out[p].value.community_health.score = 130
    /\ out[p].value.total_score = 385
    /\ out[p].value.rating = "D"

\* the exact activity score of a record in tenths times 10 * issues * prs,
\* without the open-issue health
ActivityRest(data, t) ==
  LET issues == data.open_issues + data.closed_issues
      i == Max(1, issues)
      q == Max(1, data.total_prs)
  IN  (activity_points(data, t) - open_issues_health(data)) * i * q
      + (IF issues > 0 THEN 43 * data.closed_issues * q ELSE 0)
      + (IF data.total_prs > 0 THEN 43 * data.merged_prs * i ELSE 0)

\* C25: with no stars and no open issue, whatever the forks, the open-issue
\* health gives its full 4.4 points and the activity scoring completes; with
\* no stars and an open issue it gives nothing.
C25_ZeroStarHealth ==
  \A p \in Rated :
    LET data == last_evaluation_data[p]
        activity == out[p].value.activity
    IN  data.stars = 0 =>
          /\ open_issues_health(data) = (IF data.open_issues = 0 THEN 44 ELSE 0)
          /\ data.open_issues = 0 => activity.score >= 44
          /\ (data.open_issues > 0 /\ ActivityRest(data, out[p].value.evaluated_at) = 0)
               => activity.score = 0

\* a repository with forks, no stars and no issue at all was scored: its
\* activity is the 4.4 points alone
C25_Witness ==
  \E p \in Rated :
    LET data == last_evaluation_data[p] IN
    /\ data.stars = 0 /\ data.forks = 5 /\ data.open_issues = 0
    /\ ActivityRest(data, out[p].value.evaluated_at) = 0
    /\ out[p].value.activity.score = 44

IsKept(data) ==
  /\ data.has_readme /\ data.readme_length = 600 /\ data.has_license
  /\ data.has_contributing /\ data.has_code_of_conduct
  /\ data.releases_last_year = 7 /\ data.protected_branches = 2
  /\ data.primary_language # None /\ data.language_count = 3
  /\ data.has_standard_dirs

\* the four documentation checks and the release and freshness checks at
\* their top tier
TopTiers(parts) ==
  /\ parts.readme = 50 /\ parts.license = 20
  /\ parts.contributing = 15 /\ parts.code_of_conduct = 15
  /\ parts.release_management = 50 /\ parts.last_update = 25

\* C26 as stated: the record with a 600-character README, license,
\* contributing guide, code of conduct, 7 releases in the last year, 5 days
\* since its update, 2 protected branches, a primary language of 3 and
\* standard directories scores at or near 30 in code quality, and every
\* documentation and maintenance check gives its top points.
C26_Original ==
  \A p \in Rated :
    (IsKept(last_evaluation_data[p]) /\ DaysSeen(p) = 5)
    => LET parts == code_quality_parts(last_evaluation_data[p],
                                       out[p].value.evaluated_at)
       IN  /\ out[p].value.code_quality.score >= 285
           /\ TopTiers(parts)
           /\ parts.branch_protection = 25

\* C26, amended: that record scores 28.5 of 30 in code quality; the
\* documentation, release and freshness checks give their top tier, and
\* branch protection gives 1.0 of its 2.5 points, 0.5 per protected branch.
C26_Amended ==
  \A p \in Rated :
    (IsKept(last_evaluation_data[p]) /\ DaysSeen(p) = 5)
    => LET parts == code_quality_parts(last_evaluation_data[p],
                                       out[p].value.evaluated_at)
       IN  /\ out[p].value.code_quality.score = 285
           /\ out[p].value.code_quality.percentage = 950
           /\ TopTiers(parts)
           /\ parts.branch_protection = 10
           /\ parts.primary_language + parts.language_diversity
                + parts.code_structure = 100

\* that record was scored
C26_Witness ==
  \E p \in Rated :
    /\ IsKept(last_evaluation_data[p]) /\ DaysSeen(p) = 5
    /\ out[p].value.code_quality.score = 285

\* ------------------------------------------ a repository without a license
\* the requests that ran past the last client call with a license call that
\* returned None
LicenseAbsent ==
  {p \in Reqs : pc[p] \in {"done", "failed"} /\ res[p]["license"] = NoneVal}

\* C27: when the license call succeeds and reports no license (None), the
\* collection completes with a record that has has_license false and no
\* license name, as it does when the license call fails.
C27_NoLicenseRecord ==
  \A p \in LicenseAbsent :
    /\ pc[p] = "done"
    /\ last_evaluation_data[p] # None
    /\ ~last_evaluation_data[p].has_license
    /\ last_evaluation_data[p].license_name = None

\* ------------------------------------------------- the age of an entry
\* C28: a hit never extends the life of an entry.  The time an entry counts
\* its age from is the time of the set that stored it: only a set of its key
\* changes it, no get does; and a get more than ttl_seconds after that time
\* finds the entry expired, whatever hits came before.
C28_Step ==
  /\ \A k \in KeySet(cache) \cap KeySet(cache') :
       (act' = "set" /\ last'.key = k)
       \/ /\ EntryOf(cache', k).timestamp = EntryOf(cache, k).timestamp
          /\ EntryOf(cache', k).ttl = EntryOf(cache, k).ttl
  /\ act' = "set" =>
       /\ EntryOf(cache', last'.key).timestamp = now
       /\ EntryOf(cache', last'.key).ttl = ttl_seconds
  /\ (/\ act' = "get"
      /\ HasKey(cache, last'.key)
      /\ now - EntryOf(cache, last'.key).timestamp > ttl_seconds)
     => /\ last'.ret = None
        /\ ~HasKey(cache', last'.key)

C28_HitsDoNotRenew == [][C28_Step]_vars

\* a get found its key expired right after a get of the same key had hit:
\* the hit has not renewed the entry
C28_Witness ==
  /\ act = "get"
  /\ last.pos # 0 /\ last.ret = None
  /\ last.prevop = "get" /\ last.prevkey = last.key
  /\ ~HasKey(cache, last.key)

\* ------------------------------------------------ eviction and expiry
\* the stored entries that have expired
Expired(c, t) == {i \in 1..Len(c) : is_expired(c[i], t)}

\* C29: the eviction of set goes by recency alone.  Expired entries count
\* towards max_size like the others, and a set of a new key into a full cache
\* evicts the least-recently-used entry, expired or not, and leaves every
\* other entry stored, the expired ones too.
C29_Step ==
  (/\ act' = "set"
   /\ ~HasKey(cache, last'.key)
   /\ Len(cache) = max_size)
  => /\ last'.evicted = <<cache[1].key>>
     /\ cache[1].key = Head(lru)
     /\ cache' = Append(Tail(cache),
                        CacheEntry(last'.key, last'.arg, ttl_seconds, now))
     /\ last'.live = (IF 1 \in Expired(cache, now) THEN 0 ELSE 1)

C29_RecencyOnly == [][C29_Step]_vars

\* a set into a full cache has evicted an entry that had not expired, and an
\* entry that has expired is still stored
C29_Witness ==
  /\ act = "set"
  /\ last.pos = 0
  /\ Len(last.evicted) = 1 /\ last.live = 1
  /\ Len(cache) = max_size
  /\ Expired(cache, now) # {}

\* ------------------------------------------------- one store for all
\* GitHubProjectEvaluator.get_cache_stats
get_cache_stats == get_stats(cache, max_size, ttl_seconds)

\* request q has stored its result for identifier u and the entry is in the
\* cache, unexpired
StoredBy(q, u) ==
  /\ pc[q] = "done"
  /\ url[q] = u
  /\ "store" \in wrote[q]
  /\ \E i \in 1..Len(cache) :
       /\ cache[i].value.result = out[q].value
       /\ ~is_expired(cache[i], now)

\* C30: the cache is one store for all evaluator instances.  A call of
\* evaluate_project on one instance for an identifier whose result another
\* instance has stored, within the TTL, is a hit: it returns that result and
\* makes no client call.  clear_cache, cleanup_expired_cache and
\* get_cache_stats act on this store: after clear_cache it is empty, after
\* cleanup_expired_cache it holds the unexpired entries alone, the size
\* reported is that of this store, and until clear_cache is called a result
\* stored by any instance is in it for the time of the TTL.
C30_Step ==
  /\ \A p \in Reqs, q \in Reqs :
       (/\ q # p
        /\ act' = "evaluate_project" /\ actor' = p
        /\ pc[p] = "idle"
        /\ StoredBy(q, url'[p]))
       => /\ pc'[p] = "done"
          /\ out'[p] = out[q]
          /\ calls'[p] = <<>>
  /\ act' = "clear" => cache' = <<>>
  /\ act' = "cleanup_expired" =>
       /\ cache' = SelectSeq(cache, LAMBDA e : ~is_expired(e, now))
       /\ last'.count = Len(cache) - Len(cache')

C30_State ==
  /\ get_cache_stats.size = Len(cache)
  /\ \A p \in Reqs :
       (pc[p] = "done" /\ "store" \in wrote[p] /\ last.op = "init"
        /\ now - out[p].value.evaluated_at <= ttl_seconds)
       => \E i \in 1..Len(cache) : cache[i].value.result.repo_url = url[p]

C30_SharedStore == []C30_State /\ [][C30_Step]_vars

\* the second instance got, as a hit, the result the first one had stored a
\* second earlier
C30_Witness ==
  /\ act = "evaluate_project" /\ actor = "r2"
  /\ pc["r1"] = "done" /\ "store" \in wrote["r1"]
  /\ pc["r2"] = "done" /\ calls["r2"] = <<>>
  /\ url["r2"] = url["r1"]
  /\ out["r2"] = out["r1"]
  /\ now = out["r1"].value.evaluated_at + 1
  /\ get_cache_stats.size = 1

====
